---- MODULE Spec2Model ----
(***************************************************************************)
(* A model of app.py: a Flask application with one route "/" that serves   *)
(* GET (render the global task list) and POST (append the form field       *)
(* new_task to the global task list, then redirect to "/").                *)
(*                                                                         *)
(* A Python str is a sequence of one-character strings, so that strip()    *)
(* and the f-string of the template are computed character by character.   *)
(***************************************************************************)
EXTENDS Integers, Sequences, FiniteSets, TLC

\* ------------------------------------------------------------------ bounds
\* The longest new_task value a request carries.
MaxLen == 4
\* The number of POST requests of one run of the sequential specification.
MaxPosts == 2
\* The number of requests in flight at once in the concurrent specification,
\* one per worker thread.
NThreads == 3
\* The longest list the template is rendered for on its own.
MaxList == 10

\* ------------------------------------------------------------- characters
\* The characters requests are built from: one whitespace, one other.
Alphabet == {" ", "a"}

\* The characters str.strip() removes (the ASCII whitespace of str.isspace).
Whitespace == {" ", "\t", "\n", "\r"}

\* Every str over Alphabet of length n.
StringsOfLen(n) == [1..n -> Alphabet]

\* Every str over Alphabet of length at most n.
StringsUpTo(n) == UNION {StringsOfLen(k) : k \in 0..n}

\* Python's None: what dict.get returns for a missing key. It is no str
\* over Alphabet.
None == <<"None">>

\* -------------------------------------------------------------- the store
LearnDocker == <<"L","e","a","r","n"," ","D","o","c","k","e","r">>
BuildAWebApp == <<"B","u","i","l","d"," ","a"," ","W","e","b"," ","A","p","p">>
ContainerizeTheApp ==
    <<"C","o","n","t","a","i","n","e","r","i","z","e"," ","t","h","e"," ","A","p","p">>

\* tasks = ["Learn Docker", "Build a Web App", "Containerize the App"]
Seeds == <<LearnDocker, BuildAWebApp, ContainerizeTheApp>>

VARIABLES
    tasks,      \* the global list `tasks`
    request,    \* the request handled last: its method and its form
    response,   \* the response returned last
    before,     \* history: `tasks` as the last request found it
    posts,      \* history: form.get('new_task') of every POST so far, in order
    pc,         \* per thread: the line of todo_list() it is at
    req,        \* per thread: its request
    new_task,   \* per thread: the local new_task
    it,         \* per thread: how many elements the for loop has taken
    task_items, \* per thread: the local task_items of get_html_template
    resp,       \* per thread: the response it returned
    appended    \* history: the threads in the order their appends ran

seqvars == <<request, response, before, posts>>
thrvars == <<pc, req, new_task, it, task_items, resp, appended>>
vars == <<tasks, seqvars, thrvars>>

\* ------------------------------------------------------------ str methods
RECURSIVE lstrip(_)
\* str.lstrip(): drop the leading whitespace.
lstrip(s) ==
    IF s # <<>> /\ Head(s) \in Whitespace THEN lstrip(Tail(s)) ELSE s

RECURSIVE rstrip(_)
\* str.rstrip(): drop the trailing whitespace.
rstrip(s) ==
    IF s # <<>> /\ s[Len(s)] \in Whitespace
    THEN rstrip(SubSeq(s, 1, Len(s) - 1))
    ELSE s

\* strip() taken for lstrip(): trailing whitespace stays.
strip_LeftOnly(s) == lstrip(s)

\* new_task.strip()
strip(s) == rstrip(lstrip(s))

\* The test made on the stripped value: `if new_task and new_task.strip():`.
Truthy_AfterStrip(v) == v # None /\ Len(strip(v)) > 0

\* `if new_task:` -- None and the empty str are falsy, every other str is
\* truthy, a str of whitespace included.
Truthy(v) == v # None /\ Len(v) > 0

\* list.insert(0, x) in place of list.append(x).
ListAppend_AtFront(lst, x) == <<x>> \o lst

\* list.append: the element goes to the end.
ListAppend(lst, x) == Append(lst, x)

DecimalDigits == <<"0","1","2","3","4","5","6","7","8","9">>

RECURSIVE str(_)
\* The decimal text of a natural number, as f"{i+1}" formats it.
str(n) ==
    IF n < 10
    THEN <<DecimalDigits[n + 1]>>
    ELSE str(n \div 10) \o <<DecimalDigits[(n % 10) + 1]>>

\* ------------------------------------------------------------ the template
NoTasksYet ==
    <<"N","o"," ","t","a","s","k","s"," ","y","e","t","!"," ",
      "A","d","d"," ","o","n","e"," ","a","b","o","v","e",".">>

\* The number shown is enumerate's index itself: f"{i}. {task}".
ItemLi_ZeroBased(i, task) ==
    [cls |-> "item", span |-> str(i) \o <<".", " ">> \o task]

\* One <li> of the loop; i is enumerate's zero-based index. The span's text
\* is f"{i+1}. {task}".
ItemLi(i, task) ==
    [cls |-> "item", span |-> str(i + 1) \o <<".", " ">> \o task]

\* The <li> of the else branch.
PlaceholderLi == [cls |-> "placeholder", span |-> NoTasksYet]

\* The template without its else branch: an empty list renders no <li>.
get_html_template_NoElse(tasks_list) ==
    [k \in 1..Len(tasks_list) |-> ItemLi(k - 1, tasks_list[k])]

\* get_html_template(tasks_list): the <li> elements placed in <ul id="task-list">
\* (the rest of the page is constant text).
get_html_template(tasks_list) ==
    IF tasks_list # <<>>
    THEN [k \in 1..Len(tasks_list) |-> ItemLi(k - 1, tasks_list[k])]
    ELSE <<PlaceholderLi>>

\* ------------------------------------------------------------ the requests
\* request.form: a dict with the key new_task, or without it.
Forms ==
    {<<>>} \cup {[new_task |-> s] : s \in StringsUpTo(MaxLen)}

\* request.form.get('new_task')
FormGet(form) ==
    IF form = <<>> THEN None ELSE form.new_task

\* redirect(url_for('todo_list')): Flask's redirect is a 302 to the route "/".
Redirect == [status |-> 302, location |-> "/", body |-> <<>>]

\* A str returned from a view: a 200 with the page as body.
Page(items) == [status |-> 200, location |-> "", body |-> items]

NoRequest == [method |-> "NONE", form |-> <<>>]
NoResponse == [status |-> 0, location |-> "", body |-> <<>>]

Threads == 1..NThreads

Init ==
    /\ tasks = Seeds
    /\ request = NoRequest
    /\ response = NoResponse
    /\ before = Seeds
    /\ posts = <<>>
    /\ pc = [t \in Threads |-> "idle"]
    /\ req = [t \in Threads |-> NoRequest]
    /\ new_task = [t \in Threads |-> None]
    /\ it = [t \in Threads |-> 0]
    /\ task_items = [t \in Threads |-> <<>>]
    /\ resp = [t \in Threads |-> NoResponse]
    /\ appended = <<>>

\* The POST branch returning the page itself after the append.
Submit_Renders(form) ==
    LET field == FormGet(form)
        grown == IF Truthy(field) THEN ListAppend(tasks, strip(field)) ELSE tasks
    IN
    /\ Len(posts) < MaxPosts
    /\ tasks' = grown
    /\ response' = Page(get_html_template(grown))
    /\ request' = [method |-> "POST", form |-> form]
    /\ before' = tasks
    /\ posts' = Append(posts, field)
    /\ UNCHANGED thrvars

\* todo_list() on a POST: lines 78-84.
Submit(form) ==
    LET field == FormGet(form) IN
    /\ Len(posts) < MaxPosts
    /\ tasks' = IF Truthy(field)
                THEN ListAppend(tasks, strip(field))
                ELSE tasks
    /\ response' = Redirect
    /\ request' = [method |-> "POST", form |-> form]
    /\ before' = tasks
    /\ posts' = Append(posts, field)
    /\ UNCHANGED thrvars

\* The GET branch rendering the list by popping its elements.
Retrieve_Draining ==
    /\ response' = Page(get_html_template(tasks))
    /\ request' = [method |-> "GET", form |-> <<>>]
    /\ before' = tasks
    /\ tasks' = <<>>
    /\ UNCHANGED <<posts, thrvars>>

\* todo_list() on a GET: line 87.
Retrieve ==
    /\ response' = Page(get_html_template(tasks))
    /\ request' = [method |-> "GET", form |-> <<>>]
    /\ before' = tasks
    /\ UNCHANGED <<tasks, posts, thrvars>>

Next ==
    \/ Retrieve
    \/ \E form \in Forms : Submit(form)

Spec == Init /\ [][Next]_vars

\* ---------------------------------------------- the handler, step by step
\* The new_task values of the concurrent specification: the empty str, a
\* str of whitespace, and a str with whitespace to strip.
ConcFields == {<<>>, <<" ">>, <<"a", " ">>}

\* The requests of the concurrent specification.
ConcRequests ==
    {[method |-> "GET", form |-> <<>>]}
    \cup {[method |-> "POST", form |-> <<>>]}
    \cup {[method |-> "POST", form |-> [new_task |-> s]] : s \in ConcFields}

\* Line 78: a thread takes a request and branches on request.method.
L78(t, r) ==
    /\ pc[t] = "idle"
    /\ req' = [req EXCEPT ![t] = r]
    /\ pc' = [pc EXCEPT ![t] = IF r.method = "POST" THEN "L80" ELSE "L15"]
    /\ UNCHANGED <<tasks, seqvars, new_task, it, task_items, resp, appended>>

\* Line 80: new_task = request.form.get('new_task')
L80(t) ==
    /\ pc[t] = "L80"
    /\ new_task' = [new_task EXCEPT ![t] = FormGet(req[t].form)]
    /\ pc' = [pc EXCEPT ![t] = "L81"]
    /\ UNCHANGED <<tasks, seqvars, req, it, task_items, resp, appended>>

\* Line 81: if new_task:
L81(t) ==
    /\ pc[t] = "L81"
    /\ pc' = [pc EXCEPT ![t] = IF Truthy(new_task[t]) THEN "L82" ELSE "L84"]
    /\ UNCHANGED <<tasks, seqvars, req, new_task, it, task_items, resp, appended>>

\* The append as a read of the list's length and a write of the slot, with
\* another thread's append in between: the slot written last is overwritten.
L82_LostUpdate(t) ==
    /\ pc[t] = "L82"
    /\ tasks' = IF Len(tasks) > Len(Seeds)
                THEN [tasks EXCEPT ![Len(tasks)] = strip(new_task[t])]
                ELSE ListAppend(tasks, strip(new_task[t]))
    /\ appended' = Append(appended, t)
    /\ pc' = [pc EXCEPT ![t] = "L84"]
    /\ UNCHANGED <<seqvars, req, new_task, it, task_items, resp>>

\* Line 82: tasks.append(new_task.strip()). strip() works on the local value;
\* list.append is one call of the interpreter, which no other thread's
\* bytecode interleaves with.
L82(t) ==
    /\ pc[t] = "L82"
    /\ tasks' = ListAppend(tasks, strip(new_task[t]))
    /\ appended' = Append(appended, t)
    /\ pc' = [pc EXCEPT ![t] = "L84"]
    /\ UNCHANGED <<seqvars, req, new_task, it, task_items, resp>>

\* Line 84: return redirect(url_for('todo_list'))
L84(t) ==
    /\ pc[t] = "L84"
    /\ resp' = [resp EXCEPT ![t] = Redirect]
    /\ pc' = [pc EXCEPT ![t] = "done"]
    /\ UNCHANGED <<tasks, seqvars, req, new_task, it, task_items, appended>>

\* Lines 87, 14, 15 and 25: get_html_template is called with the global list
\* itself; task_items = ""; `if tasks_list:` either enters the loop or takes
\* the else branch.
L15(t) ==
    /\ pc[t] = "L15"
    /\ IF tasks # <<>>
       THEN /\ task_items' = [task_items EXCEPT ![t] = <<>>]
            /\ pc' = [pc EXCEPT ![t] = "L17"]
       ELSE /\ task_items' = [task_items EXCEPT ![t] = <<PlaceholderLi>>]
            /\ pc' = [pc EXCEPT ![t] = "L28"]
    /\ it' = [it EXCEPT ![t] = 0]
    /\ UNCHANGED <<tasks, seqvars, req, new_task, resp, appended>>

\* Lines 17-23: one turn of the for loop. The list iterator holds an index
\* and compares it with the list's current length on every turn.
L17(t) ==
    /\ pc[t] = "L17"
    /\ IF it[t] < Len(tasks)
       THEN /\ task_items' = [task_items EXCEPT
                                ![t] = Append(@, ItemLi(it[t], tasks[it[t] + 1]))]
            /\ it' = [it EXCEPT ![t] = @ + 1]
            /\ pc' = pc
       ELSE /\ pc' = [pc EXCEPT ![t] = "L28"]
            /\ UNCHANGED <<task_items, it>>
    /\ UNCHANGED <<tasks, seqvars, req, new_task, resp, appended>>

\* Lines 28-73 and 87: the page is returned.
L28(t) ==
    /\ pc[t] = "L28"
    /\ resp' = [resp EXCEPT ![t] = Page(task_items[t])]
    /\ pc' = [pc EXCEPT ![t] = "done"]
    /\ UNCHANGED <<tasks, seqvars, req, new_task, it, task_items, appended>>

NextConc ==
    \E t \in Threads :
        \/ \E r \in ConcRequests : L78(t, r)
        \/ L80(t)
        \/ L81(t)
        \/ L82(t)
        \/ L84(t)
        \/ L15(t)
        \/ L17(t)
        \/ L28(t)

SpecConc == Init /\ [][NextConc]_vars

\* ------------------------------------------------ the template on its own
\* The elements of the lists the template is rendered for.
RenderItems == {<<"a">>, <<" ", "a", " ">>}

\* Every list of RenderItems of length at most n.
ListsUpTo(n) == UNION {[1..k -> RenderItems] : k \in 0..n}

InitRender ==
    /\ tasks \in ListsUpTo(MaxList)
    /\ request = NoRequest
    /\ response = NoResponse
    /\ before = tasks
    /\ posts = <<>>
    /\ pc = [t \in Threads |-> "idle"]
    /\ req = [t \in Threads |-> NoRequest]
    /\ new_task = [t \in Threads |-> None]
    /\ it = [t \in Threads |-> 0]
    /\ task_items = [t \in Threads |-> <<>>]
    /\ resp = [t \in Threads |-> NoResponse]
    /\ appended = <<>>

SpecRender == InitRender /\ [][Retrieve]_vars

\* ------------------------------------------------- notions the claims use
\* s consists of whitespace only (the empty str included).
AllWhitespace(s) == \A i \in 1..Len(s) : s[i] \in Whitespace

\* s neither starts nor ends with whitespace.
Trimmed(s) ==
    s = <<>> \/ (s[1] \notin Whitespace /\ s[Len(s)] \notin Whitespace)

\* s is raw without a whitespace prefix and a whitespace suffix, and is
\* itself trimmed: what lies between the two is kept as it is.
IsTrimOf(s, raw) ==
    /\ Trimmed(s)
    /\ \E i, j \in 0..Len(raw) :
        /\ i + j <= Len(raw)
        /\ s = SubSeq(raw, i + 1, Len(raw) - j)
        /\ AllWhitespace(SubSeq(raw, 1, i))
        /\ AllWhitespace(SubSeq(raw, Len(raw) - j + 1, Len(raw)))

\* a is a prefix of b.
IsPrefix(a, b) == Len(a) <= Len(b) /\ SubSeq(b, 1, Len(a)) = a

\* The span text of entry k is "<k>. " followed by some text; this is the
\* text.
EntryText(k, entry) ==
    SubSeq(entry.span, Len(str(k)) + 3, Len(entry.span))

\* Entry k is a numbered entry: an item whose span starts with "<k>. ".
IsNumbered(k, entry) ==
    /\ entry.cls = "item"
    /\ Len(entry.span) >= Len(str(k)) + 2
    /\ SubSeq(entry.span, 1, Len(str(k)) + 2) = str(k) \o <<".", " ">>

\* The new_task value of the last request.
LastField == FormGet(request.form)

\* A str with at least one character (None is not a str).
NonEmptyStr(v) == v # None /\ Len(v) >= 1

\* ------------------------------------------------------------------ claims
\* C1: from a fresh process, after N Submits whose new_task is a non-empty
\* str, a Retrieve shows N+3 entries: the three seeds at positions 1..3, then
\* the N submitted values, trimmed, in submission order; entry k is numbered k.
C1_RetrieveShowsSeedsThenSubmitted ==
    (/\ request.method = "GET"
     /\ \A k \in 1..Len(posts) : NonEmptyStr(posts[k]))
    => /\ response.status = 200
       /\ Len(response.body) = Len(posts) + 3
       /\ \A k \in 1..Len(response.body) : IsNumbered(k, response.body[k])
       /\ \A k \in 1..3 : EntryText(k, response.body[k]) = Seeds[k]
       /\ \A k \in 1..Len(posts) :
            IsTrimOf(EntryText(3 + k, response.body[3 + k]), posts[k])

\* C1's case: a Retrieve after two or more Submits of non-empty values, the
\* first of which had whitespace to trim and differs from the second.
C1_Witness ==
    /\ request.method = "GET"
    /\ Len(posts) >= 2
    /\ \A k \in 1..Len(posts) : NonEmptyStr(posts[k])
    /\ posts[1][1] \in Whitespace
    /\ ~AllWhitespace(posts[1])
    /\ strip(posts[1]) # strip(posts[2])
    /\ Len(response.body) = Len(posts) + 3

\* C2: a Submit whose new_task is absent, empty or whitespace only leaves
\* the store as it found it.
C2_BlankSubmitLeavesStore ==
    (/\ request.method = "POST"
     /\ (LastField = None \/ AllWhitespace(LastField)))
    => tasks = before

\* C3: a Submit whose new_task has leading and/or trailing whitespace around
\* a non-empty core appends exactly the value without that whitespace
\* (interior whitespace kept), and stripping the stored element again changes
\* nothing.
C3_SubmitStoresTrimmed ==
    (/\ request.method = "POST"
     /\ LastField # None
     /\ ~AllWhitespace(LastField)
     /\ (LastField[1] \in Whitespace \/ LastField[Len(LastField)] \in Whitespace))
    => /\ Len(tasks) = Len(before) + 1
       /\ SubSeq(tasks, 1, Len(before)) = before
       /\ IsTrimOf(tasks[Len(tasks)], LastField)
       /\ strip(tasks[Len(tasks)]) = tasks[Len(tasks)]

\* C3's case: the value submitted last had one leading whitespace character
\* and whitespace inside its core; the stored element is the core.
C3_Witness ==
    /\ request.method = "POST"
    /\ NonEmptyStr(LastField)
    /\ LastField[1] \in Whitespace
    /\ Len(tasks) = Len(before) + 1
    /\ Len(tasks[Len(tasks)]) = Len(LastField) - 1
    /\ \E i \in 2..(Len(tasks[Len(tasks)]) - 1) :
        tasks[Len(tasks)][i] \in Whitespace

\* C4: every Submit is answered with a redirect to the route "/" and no
\* rendered page, whether or not it changed the store; a rendered list is
\* the answer to a Retrieve only.
C4_SubmitRedirects ==
    /\ request.method = "POST" =>
        /\ response.status = 302
        /\ response.location = "/"
        /\ response.body = <<>>
    /\ request.method = "GET" =>
        /\ response.status = 200
        /\ response.body # <<>>
    /\ response.body # <<>> => request.method = "GET"

\* C4's case: a Submit that changed the store was answered with a redirect.
C4_Witness ==
    /\ request.method = "POST"
    /\ tasks # before
    /\ response.status = 302

\* C5: every element of the store is a non-empty str without leading or
\* trailing whitespace.
C5_StoreHoldsTrimmedNonEmpty ==
    \A k \in 1..Len(tasks) : tasks[k] # <<>> /\ Trimmed(tasks[k])

\* C6: the store is append-only: across every step, the store before the
\* step is a prefix of the store after it.
C6_StoreAppendOnly == [][IsPrefix(tasks, tasks')]_vars

\* C6's case: a Submit made the store grow.
C6_Witness ==
    /\ request.method = "POST"
    /\ Len(tasks) = Len(before) + 1
    /\ Len(before) > 3

\* C7: a Retrieve leaves the store as it is, and a Retrieve that follows a
\* Retrieve returns the same rendered list.
C7_RetrieveHasNoSideEffects ==
    [][request'.method = "GET" =>
        /\ tasks' = tasks
        /\ request.method = "GET" => response'.body = response.body]_vars

\* C7's case: a Retrieve on a store that Submits have extended.
C7_Witness ==
    /\ request.method = "GET"
    /\ Len(tasks) > 3
    /\ tasks = before
    /\ Len(response.body) = Len(tasks)

\* C8: rendering a list of zero items gives exactly one placeholder entry,
\* "No tasks yet! Add one above.", and no numbered entry; rendering a list of
\* n >= 1 items gives exactly n numbered entries and no placeholder.
C8_RenderPlaceholderOrItems ==
    response.status = 200 =>
        IF Len(tasks) = 0
        THEN /\ Len(response.body) = 1
             /\ response.body[1].cls = "placeholder"
             /\ response.body[1].span = NoTasksYet
        ELSE /\ Len(response.body) = Len(tasks)
             /\ \A k \in 1..Len(tasks) :
                  /\ IsNumbered(k, response.body[k])
                  /\ EntryText(k, response.body[k]) = tasks[k]

\* C8's case: the list of zero items has been rendered.
C8_Witness ==
    /\ tasks = <<>>
    /\ response.status = 200
    /\ Len(response.body) = 1

\* Every thread has returned its response.
AllDone == \A t \in Threads : pc[t] = "done"

\* The threads whose Submit passed the test of line 81.
Accepted ==
    {t \in Threads : req[t].method = "POST" /\ NonEmptyStr(FormGet(req[t].form))}

\* The threads that handled a Retrieve.
Retrievers == {t \in Threads : req[t].method = "GET"}

\* C9: with the handlers of several requests interleaved step by step and no
\* lock, once every request has completed the store is the three seeds
\* followed by exactly one element per accepted Submit, in the order the
\* appends ran, and every Retrieve has rendered a prefix of that store.
C9_NoAppendLostOrDuplicated ==
    AllDone =>
        /\ Len(tasks) = 3 + Cardinality(Accepted)
        /\ SubSeq(tasks, 1, 3) = Seeds
        /\ Len(appended) = Cardinality(Accepted)
        /\ {appended[k] : k \in 1..Len(appended)} = Accepted
        /\ \A k \in 1..Len(appended) :
             IsTrimOf(tasks[3 + k], FormGet(req[appended[k]].form))
        /\ \A t \in Retrievers :
             /\ resp[t].status = 200
             /\ Len(resp[t].body) <= Len(tasks)
             /\ \A k \in 1..Len(resp[t].body) :
                  /\ IsNumbered(k, resp[t].body[k])
                  /\ EntryText(k, resp[t].body[k]) = tasks[k]

\* C9's case: two Submits were accepted and their appends ran in the order
\* opposite to the threads' numbers, with different elements; a Retrieve
\* ran between the two appends and rendered the store without the last one.
C9_Witness ==
    /\ AllDone
    /\ Cardinality(Accepted) = 2
    /\ \E k \in 1..(Len(appended) - 1) : appended[k] > appended[k + 1]
    /\ tasks[4] # tasks[5]
    /\ \E t \in Retrievers : Len(resp[t].body) = 4

\* The Submits so far whose raw new_task is a str of length >= 1.
RawNonEmptyPosts == {k \in 1..Len(posts) : NonEmptyStr(posts[k])}

\* C10: the test is on the raw value: the store grows by one on a Submit
\* whose raw new_task is present with length >= 1 (a value already stored
\* included) and by nothing on any other request, so its length is 3 plus
\* the number of such Submits.
C10_LengthCountsRawNonEmpty ==
    /\ Len(tasks) = 3 + Cardinality(RawNonEmptyPosts)
    /\ request.method = "POST" =>
        Len(tasks) = Len(before) + (IF NonEmptyStr(LastField) THEN 1 ELSE 0)
    /\ request.method = "GET" => Len(tasks) = Len(before)

\* C10's case: a whitespace-only value and a value already in the store
\* were both appended, and a Submit without the field was not.
C10_Witness ==
    /\ request.method = "POST"
    /\ Len(tasks) = Len(before) + 1
    /\ AllWhitespace(LastField)
    /\ tasks[Len(tasks)] = tasks[Len(tasks) - 1]
    /\ Len(tasks) >= 5

====
